---- MODULE Spec2Model ----
(***************************************************************************)
(* The authentication/session subsystem of the admin dashboard:            *)
(*   - AuthService (services/AuthService, the retry-wrapped variant):      *)
(*     retryWithBackoff, validateCredentials, handleGraphQLError,          *)
(*     fetchUser, refreshToken, scheduleTokenRefresh, login, logout,       *)
(*     validateToken;                                                      *)
(*   - AuthProvider (context/AuthContext): the React state user/token, the *)
(*     startup token check, the storage listener, login and logout.        *)
(* JavaScript runs one handler at a time: an action below is one run of a  *)
(* handler from one suspension point (a fetch, a backoff sleep, a timer)   *)
(* to the next.                                                            *)
(***************************************************************************)
EXTENDS Integers, Sequences, FiniteSets, TLC

VARIABLES
    user,            \* AuthProvider: useState<User | null>
    token,           \* AuthProvider: useState<string | null>
    authToken,       \* localStorage['authToken']
    refreshTimeout,  \* AuthService.refreshTimeout: a timer handle or Null
    timers,          \* the browser's timers created by scheduleTokenRefresh
    loginCalls,      \* the calls of AuthProvider.login
    logoutCall,      \* the call of AuthProvider.logout in flight
    startup,         \* the startup token check effect
    sessionLive,     \* history: a session was established (a login resolved, or
                     \* the startup check restored the user) and has not been
                     \* invalidated since (by a logout, by a login that failed
                     \* and reset the session, or by an expired or invalid
                     \* token met by the refresh callback)
    settled,         \* the call or callback that ended in the last step, and how
    rw,              \* one call of retryWithBackoff on an arbitrary operation
    probe,           \* what an observer of one login call has seen of it
    exchange,        \* one response passed to handleGraphQLError, and its result
    worlds,          \* WorldsPage: its fetchWorlds request in flight
    logged,          \* the values the last step passed to the logger
    fetched          \* one Me payload passed to fetchUser's operation, and its result

vars == <<user, token, authToken, refreshTimeout, timers, loginCalls,
          logoutCall, startup, sessionLive, settled, rw, probe,
          exchange, worlds, logged, fetched>>

sessionVars == <<user, token, authToken, refreshTimeout, timers, loginCalls,
                 logoutCall, startup, sessionLive, settled>>

Null == "null"

(***************************************************************************)
(* Bounds of the model.                                                    *)
(***************************************************************************)
\* the callers of AuthProvider.login, each with at most one call in flight
\* (the Login page is the first)
MaxLoginCalls == 2
\* the refresh timers created in one run
MaxTimers == 2
\* the largest maxRetries of an injected RetryConfig
MaxRetriesBound == 4

(***************************************************************************)
(* DEFAULT_RETRY_CONFIG.                                                   *)
(***************************************************************************)
maxRetries == 3
initialDelay == 1000
maxDelay == 10000
backoffFactor == 2

DEFAULT_RETRY_CONFIG ==
    [maxRetries |-> maxRetries, initialDelay |-> initialDelay,
     maxDelay |-> maxDelay, backoffFactor |-> backoffFactor]

(***************************************************************************)
(* The error classes of types/AuthErrors. "AuthError" is the base class    *)
(* thrown as such; "Raw" is an exception that is no AuthError (a rejected  *)
(* fetch, a TypeError).                                                    *)
(***************************************************************************)
AuthErrorClasses ==
    {"AuthError", "InvalidCredentialsError", "TokenExpiredError",
     "TokenInvalidError", "TokenRefreshError", "UserNotFoundError",
     "NetworkError", "ServerError", "ValidationError"}

Raw == "Raw"
NoError == "none"
ErrorClasses == AuthErrorClasses \cup {Raw}

\* error instanceof AuthError
IsAuthError(e) == e \in AuthErrorClasses

(***************************************************************************)
(* Strings are sequences of characters.                                    *)
(***************************************************************************)
Min(a, b) == IF a <= b THEN a ELSE b

\* String.prototype.includes
Includes(s, sub) ==
    \E i \in 1..(Len(s) - Len(sub) + 1) :
        \A k \in 1..Len(sub) : s[i + k - 1] = sub[k]

StrExpired == <<"e","x","p","i","r","e","d">>
StrInvalid == <<"i","n","v","a","l","i","d">>
StrCredentials == <<"c","r","e","d","e","n","t","i","a","l","s">>

MsgTokenExpired == <<"t","o","k","e","n"," ">> \o StrExpired
MsgInvalidToken == StrInvalid \o <<" ","t","o","k","e","n">>
MsgBadCredentials == <<"b","a","d"," ">> \o StrCredentials
MsgInvalidCredentials == StrInvalid \o <<" ">> \o StrCredentials
MsgInvalidOrExpired == StrInvalid \o <<" ","o","r"," ">> \o StrExpired
MsgInternal == <<"i","n","t","e","r","n","a","l">>

Messages ==
    {MsgTokenExpired, MsgInvalidToken, MsgBadCredentials,
     MsgInvalidCredentials, MsgInvalidOrExpired, MsgInternal}

(***************************************************************************)
(* retryWithBackoff: the decision taken in the catch block of one attempt. *)
(***************************************************************************)
\* a faulty variant of IsNonRetryable: a missing user is not retried either
IsNonRetryableOrUserNotFound(error) ==
    error \in {"InvalidCredentialsError", "TokenExpiredError",
               "TokenInvalidError", "ValidationError", "UserNotFoundError"}

\* the instanceof tests that rethrow at once
IsNonRetryable(error) ==
    error \in {"InvalidCredentialsError", "TokenExpiredError",
               "TokenInvalidError", "ValidationError"}

\* a faulty variant of OnAttemptFailed: the last attempt sleeps and retries
OnAttemptFailedOnceMore(attempt, error, cfg) ==
    IF IsNonRetryable(error) THEN "throw"
    ELSE IF attempt < cfg.maxRetries + 1 THEN "sleep"
    ELSE "exhausted"

\* "throw": rethrown at once; "sleep": wait, then the next attempt;
\* "exhausted": the loop ends and lastError is thrown
OnAttemptFailed(attempt, error, cfg) ==
    IF IsNonRetryable(error) THEN "throw"
    ELSE IF attempt < cfg.maxRetries THEN "sleep"
    ELSE "exhausted"

\* a faulty variant of NextDelay: the delay is not capped
NextDelayNoCap(delay, cfg) == delay * cfg.backoffFactor

\* delay = Math.min(delay * backoffFactor, maxDelay)
NextDelay(delay, cfg) == Min(delay * cfg.backoffFactor, cfg.maxDelay)

\* a faulty variant of validateCredentials: the password is not checked
validateCredentialsNoPassword(username, password) ==
    IF username = <<>> \/ Len(username) < 3 THEN "ValidationError"
    ELSE NoError

(***************************************************************************)
(* validateCredentials: the error it throws, or NoError.                   *)
(***************************************************************************)
validateCredentials(username, password) ==
    IF username = <<>> \/ Len(username) < 3 THEN "ValidationError"
    ELSE IF password = <<>> \/ Len(password) < 6 THEN "ValidationError"
    ELSE NoError

(***************************************************************************)
(* A response of the GraphQL endpoint.                                     *)
(*   fetchOk:  fetch resolved (FALSE: it rejected, no response)            *)
(*   status:   the HTTP status                                             *)
(*   bodyOk:   response.text() / response.json() succeeds                  *)
(*   hasErrors, errors: the envelope's "errors" (the messages)             *)
(*   data:     the envelope's data, as the fields the operations read      *)
(***************************************************************************)
Tokens == {"t1", "t2"}

NoMe ==
    [present |-> FALSE, id |-> "", email |-> "", rolesIsArray |-> FALSE,
     roles |-> <<>>, fullName |-> "", isEnabled |-> "absent"]

MeOf(id, email) ==
    [present |-> TRUE, id |-> id, email |-> email, rolesIsArray |-> TRUE,
     roles |-> <<"ADMIN">>, fullName |-> "", isEnabled |-> "absent"]

NoData == [token |-> Null, me |-> NoMe, valid |-> "absent"]

HttpResponse(status, bodyOk) ==
    [fetchOk |-> TRUE, status |-> status, bodyOk |-> bodyOk,
     hasErrors |-> FALSE, errors |-> <<>>, data |-> NoData]

ErrorsResponse(errors) ==
    [fetchOk |-> TRUE, status |-> 200, bodyOk |-> TRUE,
     hasErrors |-> TRUE, errors |-> errors, data |-> NoData]

DataResponse(data) ==
    [fetchOk |-> TRUE, status |-> 200, bodyOk |-> TRUE,
     hasErrors |-> FALSE, errors |-> <<>>, data |-> data]

FetchRejected ==
    [fetchOk |-> FALSE, status |-> 0, bodyOk |-> FALSE,
     hasErrors |-> FALSE, errors |-> <<>>, data |-> NoData]

\* the failures an operation can meet
AllFailures ==
    {FetchRejected}
    \cup {HttpResponse(s, TRUE) : s \in {400, 401, 404, 500, 503}}
    \cup {HttpResponse(401, FALSE), HttpResponse(200, FALSE)}
    \cup {ErrorsResponse(<<m>>) : m \in Messages}
    \cup {ErrorsResponse(<<>>), ErrorsResponse(<<MsgInternal, MsgTokenExpired>>)}

\* one failure of each kind the session reacts to: a rejected fetch, a
\* retryable status, an invalid token, an expired token, bad credentials
SomeFailures ==
    {FetchRejected, HttpResponse(500, TRUE), HttpResponse(401, TRUE),
     ErrorsResponse(<<MsgTokenExpired>>), ErrorsResponse(<<MsgBadCredentials>>)}

\* the answers to a Login or a RefreshToken request: a failure, or a payload
\* with one of the tokens or none
TokenResponses(failures, tokens) ==
    failures
    \cup {DataResponse([NoData EXCEPT !.token = t]) : t \in tokens \cup {Null}}

\* the answers to a Me or a UsersFindOne request
MeResponses(failures, mes) ==
    failures \cup {DataResponse([NoData EXCEPT !.me = m]) : m \in mes}

LogoutResponses(failures) == failures \cup {DataResponse(NoData)}

ValidateResponses(failures) ==
    failures
    \cup {DataResponse([NoData EXCEPT !.valid = v]) :
            v \in {"true", "false", "absent"}}

\* the users the server knows, and payloads that lack a required field
SomeMes == {NoMe, MeOf("u1", "a@x")}
AllMes == {NoMe, MeOf("u1", "a@x"), MeOf("u2", "b@x"), MeOf("", "a@x"),
           MeOf("u1", "")}

(***************************************************************************)
(* handleGraphQLError: [error, data]; error is the class thrown or NoError.*)
(***************************************************************************)
\* response.ok
ResponseOk(status) == status >= 200 /\ status <= 299

\* a faulty variant of StatusError: 401 is not singled out
StatusErrorNo401(status) ==
    IF status = 404 THEN "UserNotFoundError"
    ELSE IF status >= 500 THEN "ServerError"
    ELSE "NetworkError"

\* a faulty variant of StatusError: 500 itself is not a server error
StatusErrorAbove500(status) ==
    IF status = 401 THEN "TokenInvalidError"
    ELSE IF status = 404 THEN "UserNotFoundError"
    ELSE IF status > 500 THEN "ServerError"
    ELSE "NetworkError"

StatusError(status) ==
    IF status = 401 THEN "TokenInvalidError"
    ELSE IF status = 404 THEN "UserNotFoundError"
    ELSE IF status >= 500 THEN "ServerError"
    ELSE "NetworkError"

\* a faulty variant of GraphQLMessageError: 'invalid' is tested first
GraphQLMessageErrorInvalidFirst(message) ==
    IF Includes(message, StrInvalid) THEN "TokenInvalidError"
    ELSE IF Includes(message, StrExpired) THEN "TokenExpiredError"
    ELSE IF Includes(message, StrCredentials) THEN "InvalidCredentialsError"
    ELSE "AuthError"

GraphQLMessageError(message) ==
    IF Includes(message, StrExpired) THEN "TokenExpiredError"
    ELSE IF Includes(message, StrInvalid) THEN "TokenInvalidError"
    ELSE IF Includes(message, StrCredentials) THEN "InvalidCredentialsError"
    ELSE "AuthError"

handleGraphQLError(response) ==
    IF ~ResponseOk(response.status)
    THEN [error |-> IF response.bodyOk THEN StatusError(response.status)
                    ELSE "NetworkError",
          data |-> NoData]
    ELSE IF ~response.bodyOk
    THEN [error |-> "NetworkError", data |-> NoData]
    ELSE IF response.hasErrors
    THEN [error |-> IF response.errors = <<>> THEN "NetworkError"
                    ELSE GraphQLMessageError(response.errors[1]),
          data |-> NoData]
    ELSE [error |-> NoError, data |-> response.data]

(***************************************************************************)
(* The value one run of each retry-wrapped operation ends with, given the  *)
(* response to its request: the error thrown out of the operation (after   *)
(* its own catch block) or NoError and the value returned.                 *)
(***************************************************************************)
NoUser ==
    [present |-> FALSE, id |-> "", email |-> "", roles |-> <<>>,
     fullName |-> "", isEnabled |-> "absent"]

\* userData.roles.filter(Boolean)
FilterBoolean(roles) == SelectSeq(roles, LAMBDA r : r # "")

\* a faulty variant of BuildUser: isEnabled is defaulted with || instead of ??
BuildUserEnabledOr(me) ==
    [present |-> TRUE, id |-> me.id, email |-> me.email,
     roles |-> IF me.rolesIsArray THEN FilterBoolean(me.roles) ELSE <<>>,
     fullName |-> IF me.fullName = "absent" THEN "" ELSE me.fullName,
     isEnabled |-> IF me.isEnabled \in {"absent", "false"} THEN "true"
                   ELSE me.isEnabled]

\* fetchUser: the user built from responseData.data.me
BuildUser(me) ==
    [present |-> TRUE, id |-> me.id, email |-> me.email,
     roles |-> IF me.rolesIsArray THEN FilterBoolean(me.roles) ELSE <<>>,
     fullName |-> IF me.fullName = "absent" THEN "" ELSE me.fullName,
     isEnabled |-> IF me.isEnabled = "absent" THEN "true" ELSE me.isEnabled]

\* AuthProvider's startup effect: setUser(data.data.UsersFindOne), as received
RawUser(me) ==
    [present |-> TRUE, id |-> me.id, email |-> me.email, roles |-> me.roles,
     fullName |-> me.fullName, isEnabled |-> me.isEnabled]

\* the operation passed to retryWithBackoff by fetchUser (no catch of its own)
fetchUserOperation(response) ==
    LET r == handleGraphQLError(response) IN
    IF ~response.fetchOk THEN [error |-> Raw, user |-> NoUser]
    ELSE IF r.error # NoError THEN [error |-> r.error, user |-> NoUser]
    ELSE IF ~r.data.me.present
    THEN [error |-> "UserNotFoundError", user |-> NoUser]
    ELSE IF r.data.me.id = "" \/ r.data.me.email = ""
    THEN [error |-> "UserNotFoundError", user |-> NoUser]
    ELSE [error |-> NoError, user |-> BuildUser(r.data.me)]

\* the catch of login, logout and validateToken: an AuthError is rethrown,
\* anything else becomes an AuthError
LoginCatch(error) == IF IsAuthError(error) THEN error ELSE "AuthError"

\* a faulty variant of loginOperation: a payload without a token is thrown as
\* a plain AuthError
loginOperationNoTokenAuthError(response) ==
    LET r == handleGraphQLError(response) IN
    IF ~response.fetchOk THEN [error |-> LoginCatch(Raw), token |-> Null]
    ELSE IF r.error # NoError THEN [error |-> LoginCatch(r.error), token |-> Null]
    ELSE IF r.data.token = Null
    THEN [error |-> "AuthError", token |-> Null]
    ELSE [error |-> NoError, token |-> r.data.token]

\* login's operation up to the token (fetchUser follows on success)
loginOperation(response) ==
    LET r == handleGraphQLError(response) IN
    IF ~response.fetchOk THEN [error |-> LoginCatch(Raw), token |-> Null]
    ELSE IF r.error # NoError THEN [error |-> LoginCatch(r.error), token |-> Null]
    ELSE IF r.data.token = Null
    THEN [error |-> "InvalidCredentialsError", token |-> Null]
    ELSE [error |-> NoError, token |-> r.data.token]

\* refreshToken's catch
RefreshCatch(error) == IF IsAuthError(error) THEN error ELSE "TokenRefreshError"

refreshTokenOperation(response) ==
    LET r == handleGraphQLError(response) IN
    IF ~response.fetchOk THEN [error |-> RefreshCatch(Raw), token |-> Null]
    ELSE IF r.error # NoError THEN [error |-> RefreshCatch(r.error), token |-> Null]
    ELSE IF r.data.token = Null
    THEN [error |-> "TokenRefreshError", token |-> Null]
    ELSE [error |-> NoError, token |-> r.data.token]

logoutOperation(response) ==
    LET r == handleGraphQLError(response) IN
    IF ~response.fetchOk THEN [error |-> LoginCatch(Raw)]
    ELSE IF r.error # NoError THEN [error |-> LoginCatch(r.error)]
    ELSE [error |-> NoError]

\* validateToken's operation: isValid, or the error it throws
validateTokenOperation(response) ==
    LET r == handleGraphQLError(response) IN
    IF ~response.fetchOk THEN [error |-> LoginCatch(Raw), isValid |-> FALSE]
    ELSE IF r.error # NoError THEN [error |-> LoginCatch(r.error), isValid |-> FALSE]
    ELSE [error |-> NoError, isValid |-> (r.data.valid = "true")]

(***************************************************************************)
(* The refresh scheduler. timers is the browser's timer table, a handle    *)
(* being an index into it: a timer is "pending" from setTimeout until it   *)
(* fires or is cleared ("cleared"); once fired its callback runs           *)
(* refreshToken ("refresh_req", "refresh_sleep") until it is "over".       *)
(***************************************************************************)
\* this.refreshTimeout = null
NoTimer == 0

\* clearTimeout(handle): a pending timer is removed, anything else is a no-op
clearTimeout(ts, handle) ==
    [i \in DOMAIN ts |->
        IF i = handle /\ ts[i].state = "pending"
        THEN [state |-> "cleared", token |-> Null, attempt |-> 0]
        ELSE ts[i]]

\* setTimeout(callback closing over tok, TOKEN_REFRESH_THRESHOLD): the new
\* timer gets the next handle
setTimeout(ts, tok) ==
    Append(ts, [state |-> "pending", token |-> tok, attempt |-> 0])

\* a faulty variant of scheduleTokenRefresh: the previous timer is kept
scheduleTokenRefreshNoClear(ts, handle, tok) ==
    [timers |-> setTimeout(ts, tok), refreshTimeout |-> Len(ts) + 1]

\* a faulty variant of scheduleTokenRefresh: a refresh that is still pending
\* is kept and no new one is scheduled
scheduleTokenRefreshKeepsPending(ts, handle, tok) ==
    IF handle # NoTimer /\ ts[handle].state = "pending"
    THEN [timers |-> ts, refreshTimeout |-> handle]
    ELSE [timers |-> setTimeout(ts, tok), refreshTimeout |-> Len(ts) + 1]

\* scheduleTokenRefresh(tok): the timers and the handle it leaves
scheduleTokenRefresh(ts, handle, tok) ==
    LET cleared == IF handle # NoTimer THEN clearTimeout(ts, handle) ELSE ts IN
    [timers |-> setTimeout(cleared, tok), refreshTimeout |-> Len(cleared) + 1]

\* the handles of the refresh callbacks that are scheduled and have not fired
PendingTimers == {i \in DOMAIN timers : timers[i].state = "pending"}

\* the login calls in flight
InFlight == {c \in 1..MaxLoginCalls : loginCalls[c].pc # "idle"}

\* the run creates at most MaxTimers timers: a login starts only if there is
\* a timer left for it to schedule
CanSchedule == Len(timers) + Cardinality(InFlight) < MaxTimers

(***************************************************************************)
(* settled: the promise that settled, or the callback that ended, in the   *)
(* step just taken: which call, the error it rejected with (NoError: it    *)
(* resolved) and the value it resolved with.                               *)
(***************************************************************************)
NoSettle == [call |-> "none", error |-> NoError, value |-> Null]

Settle(call, error, value) == [call |-> call, error |-> error, value |-> value]

(***************************************************************************)
(* AuthProvider.login -> AuthService.login -> fetchUser.                   *)
(* A call in flight: pc, the credentials, attempt (login's retry loop),    *)
(* fetchAttempt (fetchUser's retry loop) and the token received.           *)
(***************************************************************************)
Usernames == {<<>>, <<"a","b">>, <<"b","o","b">>}
Passwords == {<<>>, <<"1","2","3","4","5">>, <<"s","e","c","r","e","t">>}

IdleCall ==
    [pc |-> "idle", username |-> <<>>, password |-> <<>>, attempt |-> 0,
     fetchAttempt |-> 0, token |-> Null]

\* a faulty variant of LoginRejects: the catch resets the token only
LoginRejectsKeepsUser(c, error) ==
    /\ loginCalls' = [loginCalls EXCEPT ![c] = IdleCall]
    /\ settled' = Settle("login", error, Null)
    /\ token' = Null
    /\ UNCHANGED <<user, sessionLive, authToken, refreshTimeout, timers>>

\* a faulty variant of LoginRejects: the catch also removes the persisted token
LoginRejectsClearsStorage(c, error) ==
    /\ loginCalls' = [loginCalls EXCEPT ![c] = IdleCall]
    /\ settled' = Settle("login", error, Null)
    /\ token' = Null
    /\ user' = NoUser
    /\ sessionLive' = FALSE
    /\ authToken' = Null
    /\ UNCHANGED <<refreshTimeout, timers>>

\* AuthProvider.login's catch: setToken(null); setUser(null); throw error
LoginRejects(c, error) ==
    /\ loginCalls' = [loginCalls EXCEPT ![c] = IdleCall]
    /\ settled' = Settle("login", error, Null)
    /\ token' = Null
    /\ user' = NoUser
    /\ sessionLive' = FALSE
    /\ UNCHANGED <<authToken, refreshTimeout, timers>>

\* retryWithBackoff's catch in AuthService.login
LoginAttemptFailed(c, call, error) ==
    IF OnAttemptFailed(call.attempt, error, DEFAULT_RETRY_CONFIG) = "sleep"
    THEN /\ loginCalls' = [loginCalls EXCEPT
                             ![c] = [call EXCEPT !.pc = "login_sleep",
                                                 !.token = Null,
                                                 !.fetchAttempt = 0]]
         /\ settled' = NoSettle
         /\ UNCHANGED <<token, user, authToken, refreshTimeout, timers,
                        sessionLive>>
    ELSE LoginRejects(c, error)

\* one run of login's operation up to its fetch
LoginAttempt(c, call) ==
    LET invalid == validateCredentials(call.username, call.password) IN
    IF invalid # NoError
    THEN LoginAttemptFailed(c, call, invalid)
    ELSE /\ loginCalls' = [loginCalls EXCEPT
                             ![c] = [call EXCEPT !.pc = "login_req"]]
         /\ settled' = NoSettle
         /\ UNCHANGED <<token, user, authToken, refreshTimeout, timers,
                        sessionLive>>

AuthProviderLogin(c, username, password) ==
    /\ startup.pc # "unmounted"
    /\ loginCalls[c].pc = "idle"
    /\ CanSchedule
    /\ LoginAttempt(c, [IdleCall EXCEPT !.username = username,
                                        !.password = password,
                                        !.attempt = 1])
    /\ UNCHANGED <<logoutCall, startup>>

\* the backoff sleep of login's retry loop ends
LoginRetry(c) ==
    /\ loginCalls[c].pc = "login_sleep"
    /\ LoginAttempt(c, [loginCalls[c] EXCEPT !.attempt = @ + 1])
    /\ UNCHANGED <<logoutCall, startup>>

\* a faulty variant of LoginResponse: the refresh is scheduled as soon as
\* the token is received, before the user is fetched
LoginResponseSchedulesEarly(c, response) ==
    /\ loginCalls[c].pc = "login_req"
    /\ LET call == loginCalls[c]
           r == loginOperation(response)
           s == scheduleTokenRefresh(timers, refreshTimeout, r.token)
       IN  IF r.error # NoError
           THEN LoginAttemptFailed(c, call, r.error)
           ELSE /\ loginCalls' = [loginCalls EXCEPT
                                    ![c] = [call EXCEPT
                                              !.pc = "me_req",
                                              !.token = r.token,
                                              !.fetchAttempt = 1]]
                /\ settled' = NoSettle
                /\ timers' = s.timers
                /\ refreshTimeout' = s.refreshTimeout
                /\ UNCHANGED <<token, user, authToken, sessionLive>>
    /\ UNCHANGED <<logoutCall, startup>>

\* the Login request is answered
LoginResponse(c, response) ==
    /\ loginCalls[c].pc = "login_req"
    /\ LET call == loginCalls[c]
           r == loginOperation(response)
       IN  IF r.error # NoError
           THEN LoginAttemptFailed(c, call, r.error)
           ELSE \* fetchUser(token): the first attempt of its retry loop
                /\ loginCalls' = [loginCalls EXCEPT
                                    ![c] = [call EXCEPT
                                              !.pc = "me_req",
                                              !.token = r.token,
                                              !.fetchAttempt = 1]]
                /\ settled' = NoSettle
                /\ UNCHANGED <<token, user, authToken, refreshTimeout, timers,
                               sessionLive>>
    /\ UNCHANGED <<logoutCall, startup>>

\* the Me request is answered
FetchUserResponse(c, response) ==
    /\ loginCalls[c].pc = "me_req"
    /\ LET call == loginCalls[c]
           r == fetchUserOperation(response)
           s == scheduleTokenRefresh(timers, refreshTimeout, call.token)
       IN  IF r.error # NoError
           THEN IF OnAttemptFailed(call.fetchAttempt, r.error,
                                   DEFAULT_RETRY_CONFIG) = "sleep"
                THEN /\ loginCalls' = [loginCalls EXCEPT
                                         ![c] = [call EXCEPT !.pc = "me_sleep"]]
                     /\ settled' = NoSettle
                     /\ UNCHANGED <<token, user, authToken, refreshTimeout,
                                    timers, sessionLive>>
                ELSE \* fetchUser throws into login's catch
                     LoginAttemptFailed(c, call, LoginCatch(r.error))
           ELSE \* scheduleTokenRefresh(token); return {token, user};
                \* AuthProvider: setToken, setUser, localStorage.setItem
                /\ timers' = s.timers
                /\ refreshTimeout' = s.refreshTimeout
                /\ loginCalls' = [loginCalls EXCEPT ![c] = IdleCall]
                /\ settled' = Settle("login", NoError, call.token)
                /\ token' = call.token
                /\ user' = r.user
                /\ authToken' = call.token
                /\ sessionLive' = TRUE
    /\ UNCHANGED <<logoutCall, startup>>

\* the backoff sleep of fetchUser's retry loop ends
FetchUserRetry(c) ==
    /\ loginCalls[c].pc = "me_sleep"
    /\ loginCalls' = [loginCalls EXCEPT
                        ![c] = [@ EXCEPT !.pc = "me_req",
                                         !.fetchAttempt = @ + 1]]
    /\ settled' = NoSettle
    /\ UNCHANGED <<token, user, authToken, refreshTimeout, timers, sessionLive,
                   logoutCall, startup>>

(***************************************************************************)
(* The refresh timer's callback (scheduleTokenRefresh) -> refreshToken.    *)
(***************************************************************************)
OverTimer == [state |-> "over", token |-> Null, attempt |-> 0]

\* a faulty variant of RefreshCallbackCatch: only an expired token is removed
RefreshCallbackCatchExpiredOnly(stored, error) ==
    IF error = "TokenExpiredError" THEN Null ELSE stored

\* a faulty variant of RefreshCallbackCatch: any failure removes the token
RefreshCallbackCatchAnyError(stored, error) == Null

\* the callback's catch: an expired or invalid token is removed
RefreshCallbackCatch(stored, error) ==
    IF error \in {"TokenExpiredError", "TokenInvalidError"} THEN Null
    ELSE stored

\* the timer fires: refreshToken(token) sends its first request
RefreshTimerFires(t) ==
    /\ t \in PendingTimers
    /\ timers' = [timers EXCEPT ![t] = [@ EXCEPT !.state = "refresh_req",
                                                 !.attempt = 1]]
    /\ settled' = NoSettle
    /\ UNCHANGED <<user, token, authToken, refreshTimeout, loginCalls,
                   logoutCall, startup, sessionLive>>

\* the RefreshToken request is answered
RefreshResponse(t, response) ==
    /\ t \in DOMAIN timers
    /\ timers[t].state = "refresh_req"
    /\ LET r == refreshTokenOperation(response) IN
       IF r.error # NoError
       THEN IF OnAttemptFailed(timers[t].attempt, r.error,
                               DEFAULT_RETRY_CONFIG) = "sleep"
            THEN /\ timers' = [timers EXCEPT
                                 ![t] = [@ EXCEPT !.state = "refresh_sleep"]]
                 /\ settled' = NoSettle
                 /\ UNCHANGED <<authToken, sessionLive>>
            ELSE \* refreshToken throws into the callback's catch
                 /\ timers' = [timers EXCEPT ![t] = OverTimer]
                 /\ settled' = Settle("refresh", r.error, Null)
                 /\ authToken' = RefreshCallbackCatch(authToken, r.error)
                 /\ sessionLive' =
                      IF r.error \in {"TokenExpiredError", "TokenInvalidError"}
                      THEN FALSE ELSE sessionLive
       ELSE \* localStorage.setItem('authToken', newToken)
            /\ timers' = [timers EXCEPT ![t] = OverTimer]
            /\ settled' = Settle("refresh", NoError, r.token)
            /\ authToken' = r.token
            /\ UNCHANGED sessionLive
    /\ UNCHANGED <<user, token, refreshTimeout, loginCalls, logoutCall,
                   startup>>

\* the backoff sleep of refreshToken's retry loop ends
RefreshRetry(t) ==
    /\ t \in DOMAIN timers
    /\ timers[t].state = "refresh_sleep"
    /\ timers' = [timers EXCEPT ![t] = [@ EXCEPT !.state = "refresh_req",
                                                 !.attempt = @ + 1]]
    /\ settled' = NoSettle
    /\ UNCHANGED <<user, token, authToken, refreshTimeout, loginCalls,
                   logoutCall, startup, sessionLive>>

(***************************************************************************)
(* AuthProvider.logout -> AuthService.logout.                              *)
(***************************************************************************)
IdleLogout == [pc |-> "idle", token |-> Null, attempt |-> 0]

\* a faulty variant of logoutClearsRefresh: the timer is left alone
logoutKeepsRefresh(ts, handle) ==
    [timers |-> ts, refreshTimeout |-> handle]

\* AuthService.logout after a successful request:
\* if (this.refreshTimeout) { clearTimeout(...); this.refreshTimeout = null }
logoutClearsRefresh(ts, handle) ==
    IF handle # NoTimer
    THEN [timers |-> clearTimeout(ts, handle), refreshTimeout |-> NoTimer]
    ELSE [timers |-> ts, refreshTimeout |-> handle]

\* a faulty variant of AuthProviderLogout: with no token in memory the
\* persisted token is left in place
AuthProviderLogoutKeepsStorage ==
    /\ startup.pc # "unmounted"
    /\ logoutCall.pc = "idle"
    /\ IF token = Null
       THEN /\ settled' = Settle("logout", NoError, "local")
            /\ user' = NoUser
            /\ UNCHANGED <<token, authToken, sessionLive, logoutCall>>
       ELSE /\ logoutCall' = [pc |-> "logout_req", token |-> token,
                              attempt |-> 1]
            /\ settled' = NoSettle
            /\ UNCHANGED <<user, token, authToken, sessionLive>>
    /\ UNCHANGED <<refreshTimeout, timers, loginCalls, startup>>

\* AuthProvider.logout: with no token in memory the service is not called
AuthProviderLogout ==
    /\ startup.pc # "unmounted"
    /\ logoutCall.pc = "idle"
    /\ IF token = Null
       THEN \* setToken(null); setUser(null); localStorage.removeItem
            /\ settled' = Settle("logout", NoError, "local")
            /\ user' = NoUser
            /\ authToken' = Null
            /\ sessionLive' = FALSE
            /\ UNCHANGED <<token, logoutCall>>
       ELSE /\ logoutCall' = [pc |-> "logout_req", token |-> token,
                              attempt |-> 1]
            /\ settled' = NoSettle
            /\ UNCHANGED <<user, token, authToken, sessionLive>>
    /\ UNCHANGED <<refreshTimeout, timers, loginCalls, startup>>

\* a faulty variant of LogoutResponse: the local session is cleared whether
\* the request succeeded or not
LogoutResponseClearsAlways(response) ==
    /\ logoutCall.pc = "logout_req"
    /\ LET r == logoutOperation(response)
           s == logoutClearsRefresh(timers, refreshTimeout)
       IN  IF r.error # NoError
           THEN IF OnAttemptFailed(logoutCall.attempt, r.error,
                                   DEFAULT_RETRY_CONFIG) = "sleep"
                THEN /\ logoutCall' = [logoutCall EXCEPT !.pc = "logout_sleep"]
                     /\ settled' = NoSettle
                     /\ UNCHANGED <<user, token, authToken, refreshTimeout,
                                    timers, sessionLive>>
                ELSE /\ logoutCall' = IdleLogout
                     /\ settled' = Settle("logout", r.error, Null)
                     /\ token' = Null
                     /\ user' = NoUser
                     /\ authToken' = Null
                     /\ sessionLive' = FALSE
                     /\ UNCHANGED <<refreshTimeout, timers>>
           ELSE /\ timers' = s.timers
                /\ refreshTimeout' = s.refreshTimeout
                /\ logoutCall' = IdleLogout
                /\ settled' = Settle("logout", NoError, "remote")
                /\ token' = Null
                /\ user' = NoUser
                /\ authToken' = Null
                /\ sessionLive' = FALSE
    /\ UNCHANGED <<loginCalls, startup>>

\* the Logout request is answered
LogoutResponse(response) ==
    /\ logoutCall.pc = "logout_req"
    /\ LET r == logoutOperation(response)
           s == logoutClearsRefresh(timers, refreshTimeout)
       IN  IF r.error # NoError
           THEN IF OnAttemptFailed(logoutCall.attempt, r.error,
                                   DEFAULT_RETRY_CONFIG) = "sleep"
                THEN /\ logoutCall' = [logoutCall EXCEPT !.pc = "logout_sleep"]
                     /\ settled' = NoSettle
                     /\ UNCHANGED <<user, token, authToken, refreshTimeout,
                                    timers, sessionLive>>
                ELSE \* AuthProvider.logout's catch rethrows
                     /\ logoutCall' = IdleLogout
                     /\ settled' = Settle("logout", r.error, Null)
                     /\ UNCHANGED <<user, token, authToken, refreshTimeout,
                                    timers, sessionLive>>
           ELSE /\ timers' = s.timers
                /\ refreshTimeout' = s.refreshTimeout
                /\ logoutCall' = IdleLogout
                /\ settled' = Settle("logout", NoError, "remote")
                /\ token' = Null
                /\ user' = NoUser
                /\ authToken' = Null
                /\ sessionLive' = FALSE
    /\ UNCHANGED <<loginCalls, startup>>

\* the backoff sleep of logout's retry loop ends
LogoutRetry ==
    /\ logoutCall.pc = "logout_sleep"
    /\ logoutCall' = [logoutCall EXCEPT !.pc = "logout_req",
                                        !.attempt = @ + 1]
    /\ settled' = NoSettle
    /\ UNCHANGED <<user, token, authToken, refreshTimeout, timers, loginCalls,
                   startup, sessionLive>>

(***************************************************************************)
(* AuthProvider's startup effect: validateToken(storedToken).then(...)     *)
(***************************************************************************)
Unmounted == [pc |-> "unmounted", storedToken |-> Null, attempt |-> 0]

StartupDone == [pc |-> "done", storedToken |-> Null, attempt |-> 0]

\* the provider mounts: const storedToken = localStorage.getItem('authToken')
Mount ==
    /\ startup.pc = "unmounted"
    /\ startup' = IF authToken = Null THEN StartupDone
                  ELSE [pc |-> "validate_req", storedToken |-> authToken,
                        attempt |-> 1]
    /\ settled' = NoSettle
    /\ UNCHANGED <<user, token, authToken, refreshTimeout, timers, loginCalls,
                   logoutCall, sessionLive>>

\* a faulty variant of ValidateResponse: a token found invalid is left in
\* the store
ValidateResponseKeepsInvalid(response) ==
    /\ startup.pc = "validate_req"
    /\ LET r == validateTokenOperation(response) IN
       IF r.error # NoError
       THEN IF OnAttemptFailed(startup.attempt, r.error,
                               DEFAULT_RETRY_CONFIG) = "sleep"
            THEN /\ startup' = [startup EXCEPT !.pc = "validate_sleep"]
                 /\ settled' = NoSettle
                 /\ UNCHANGED <<token, authToken>>
            ELSE /\ startup' = StartupDone
                 /\ settled' = Settle("validateToken", r.error, Null)
                 /\ UNCHANGED <<token, authToken>>
       ELSE IF r.isValid
            THEN /\ startup' = [startup EXCEPT !.pc = "find_req", !.attempt = 0]
                 /\ settled' = Settle("validateToken", NoError, "true")
                 /\ token' = startup.storedToken
                 /\ UNCHANGED authToken
            ELSE /\ startup' = StartupDone
                 /\ settled' = Settle("validateToken", NoError, "false")
                 /\ UNCHANGED <<token, authToken>>
    /\ UNCHANGED <<user, refreshTimeout, timers, loginCalls, logoutCall,
                   sessionLive>>

\* the ValidateToken request is answered
ValidateResponse(response) ==
    /\ startup.pc = "validate_req"
    /\ LET r == validateTokenOperation(response) IN
       IF r.error # NoError
       THEN IF OnAttemptFailed(startup.attempt, r.error,
                               DEFAULT_RETRY_CONFIG) = "sleep"
            THEN /\ startup' = [startup EXCEPT !.pc = "validate_sleep"]
                 /\ settled' = NoSettle
                 /\ UNCHANGED <<token, authToken>>
            ELSE \* validateToken rejects; the effect has no rejection handler
                 /\ startup' = StartupDone
                 /\ settled' = Settle("validateToken", r.error, Null)
                 /\ UNCHANGED <<token, authToken>>
       ELSE IF r.isValid
            THEN \* setToken(storedToken); fetch UsersFindOne
                 /\ startup' = [startup EXCEPT !.pc = "find_req", !.attempt = 0]
                 /\ settled' = Settle("validateToken", NoError, "true")
                 /\ token' = startup.storedToken
                 /\ UNCHANGED authToken
            ELSE \* localStorage.removeItem('authToken')
                 /\ startup' = StartupDone
                 /\ settled' = Settle("validateToken", NoError, "false")
                 /\ authToken' = Null
                 /\ UNCHANGED token
    /\ UNCHANGED <<user, refreshTimeout, timers, loginCalls, logoutCall,
                   sessionLive>>

\* the backoff sleep of validateToken's retry loop ends
ValidateRetry ==
    /\ startup.pc = "validate_sleep"
    /\ startup' = [startup EXCEPT !.pc = "validate_req", !.attempt = @ + 1]
    /\ settled' = NoSettle
    /\ UNCHANGED <<user, token, authToken, refreshTimeout, timers, loginCalls,
                   logoutCall, sessionLive>>

\* the UsersFindOne request is answered: response.json(), then
\* if (data.data?.UsersFindOne) setUser(...); a rejection removes the token
UsersFindOneResponse(response) ==
    /\ startup.pc = "find_req"
    /\ startup' = StartupDone
    /\ settled' = NoSettle
    /\ IF ~response.fetchOk \/ ~response.bodyOk
       THEN /\ authToken' = Null
            /\ UNCHANGED <<user, sessionLive>>
       ELSE IF ~response.hasErrors /\ response.data.me.present
            THEN /\ user' = RawUser(response.data.me)
                 /\ sessionLive' = TRUE
                 /\ UNCHANGED authToken
            ELSE UNCHANGED <<user, authToken, sessionLive>>
    /\ UNCHANGED <<token, refreshTimeout, timers, loginCalls, logoutCall>>

(***************************************************************************)
(* The storage listener: another tab wrote or removed 'authToken'.         *)
(***************************************************************************)
\* if (e.key === 'authToken' && e.newValue) setToken(e.newValue)
handleStorageChange(current, newValue) ==
    IF newValue # Null THEN newValue ELSE current

StorageEvent(newValue) ==
    /\ startup.pc # "unmounted"
    /\ newValue # authToken
    /\ authToken' = newValue
    /\ token' = handleStorageChange(token, newValue)
    /\ settled' = Settle("storage", NoError, newValue)
    /\ UNCHANGED <<user, refreshTimeout, timers, loginCalls, logoutCall,
                   startup, sessionLive>>

(***************************************************************************)
(* retryWithBackoff on an arbitrary operation, one call: the loop's        *)
(* variables (attempt, delay, lastError), and a log of what each           *)
(* invocation of the operation ended with (outcomes) and of the sleeps     *)
(* taken (waits).                                                          *)
(***************************************************************************)
RetryConfigs ==
    [maxRetries : 1..MaxRetriesBound, initialDelay : {initialDelay, 6000},
     maxDelay : {maxDelay}, backoffFactor : {backoffFactor}]

RetryIdle ==
    [pc |-> "idle", cfg |-> DEFAULT_RETRY_CONFIG, attempt |-> 0, delay |-> 0,
     lastError |-> NoError, outcomes |-> <<>>, waits |-> <<>>,
     thrown |-> NoError]

\* retryWithBackoff(operation, name, cfg): the first invocation starts
RetryCall(cfg) ==
    /\ rw.pc = "idle"
    /\ rw' = [RetryIdle EXCEPT !.pc = "operation", !.cfg = cfg,
                               !.attempt = 1, !.delay = cfg.initialDelay]
    /\ UNCHANGED <<sessionVars, probe, exchange, worlds, logged, fetched>>

\* return await operation()
OperationReturns ==
    /\ rw.pc = "operation"
    /\ rw' = [rw EXCEPT !.pc = "returned",
                        !.outcomes = Append(@, NoError)]
    /\ UNCHANGED <<sessionVars, probe, exchange, worlds, logged, fetched>>

\* a faulty variant of OperationThrows: when the attempts are exhausted the
\* call returns instead of throwing lastError
OperationThrowsSwallows(error) ==
    /\ rw.pc = "operation"
    /\ LET decision == OnAttemptFailed(rw.attempt, error, rw.cfg) IN
       rw' = [rw EXCEPT
                !.lastError = error,
                !.outcomes = Append(@, error),
                !.pc = IF decision = "sleep" THEN "sleep"
                       ELSE IF decision = "throw" THEN "thrown"
                       ELSE "returned",
                !.thrown = IF decision = "throw" THEN error ELSE NoError,
                !.waits = IF decision = "sleep" THEN Append(@, rw.delay)
                          ELSE @]
    /\ UNCHANGED <<sessionVars, probe, exchange, worlds, logged, fetched>>

\* the operation throws: the catch block
OperationThrows(error) ==
    /\ rw.pc = "operation"
    /\ LET decision == OnAttemptFailed(rw.attempt, error, rw.cfg) IN
       rw' = [rw EXCEPT
                !.lastError = error,
                !.outcomes = Append(@, error),
                !.pc = IF decision = "sleep" THEN "sleep" ELSE "thrown",
                !.thrown = IF decision = "sleep" THEN NoError ELSE error,
                !.waits = IF decision = "sleep" THEN Append(@, rw.delay)
                          ELSE @]
    /\ UNCHANGED <<sessionVars, probe, exchange, worlds, logged, fetched>>

\* a faulty variant of SleepEnds: the loop goes back to sleep instead of
\* invoking the operation again
SleepEndsSleepsAgain ==
    /\ rw.pc = "sleep"
    /\ rw' = [rw EXCEPT !.delay = NextDelay(@, rw.cfg)]
    /\ UNCHANGED <<sessionVars, probe, exchange, worlds, logged, fetched>>

\* the sleep ends: the delay grows and the next invocation starts
SleepEnds ==
    /\ rw.pc = "sleep"
    /\ rw' = [rw EXCEPT !.pc = "operation", !.attempt = @ + 1,
                        !.delay = NextDelay(@, rw.cfg)]
    /\ UNCHANGED <<sessionVars, probe, exchange, worlds, logged, fetched>>

(***************************************************************************)
(* The header that carries the session token in each request.              *)
(***************************************************************************)
NoAuthHeader == [name |-> "none", scheme |-> "none", value |-> Null]

\* getHeaders(token): if (token) headers['Bluelibs-Token'] = token
getHeaders(tok) ==
    IF tok # Null
    THEN [name |-> "Bluelibs-Token", scheme |-> "none", value |-> tok]
    ELSE NoAuthHeader

\* the startup effect's UsersFindOne fetch: 'Bluelibs-Token': storedToken
UsersFindOneHeaders(tok) ==
    [name |-> "Bluelibs-Token", scheme |-> "none", value |-> tok]

\* fetchWorlds: 'Authorization': `Bearer ${token}`
WorldsHeaders(tok) ==
    [name |-> "Authorization", scheme |-> "Bearer", value |-> tok]

Request(operation, header) == [operation |-> operation, header |-> header]

\* the requests that were sent and are not answered yet
RequestsInFlight ==
    {Request("Login", getHeaders(Null)) :
        c \in {c \in DOMAIN loginCalls : loginCalls[c].pc = "login_req"}}
    \cup {Request("Me", getHeaders(loginCalls[c].token)) :
            c \in {c \in DOMAIN loginCalls : loginCalls[c].pc = "me_req"}}
    \cup {Request("RefreshToken", getHeaders(timers[t].token)) :
            t \in {t \in DOMAIN timers : timers[t].state = "refresh_req"}}
    \cup (IF logoutCall.pc = "logout_req"
          THEN {Request("Logout", getHeaders(logoutCall.token))} ELSE {})
    \cup (IF startup.pc = "validate_req"
          THEN {Request("ValidateToken", getHeaders(startup.storedToken))}
          ELSE {})
    \cup (IF startup.pc = "find_req"
          THEN {Request("UsersFindOne", UsersFindOneHeaders(startup.storedToken))}
          ELSE {})
    \cup (IF worlds.pc = "req"
          THEN {Request("WorldsFindOne", WorldsHeaders(worlds.token))}
          ELSE {})

(***************************************************************************)
(* WorldsPage, behind PrivateRoute (isAuthenticated: !!user): its effect   *)
(* runs fetchWorlds when the page mounts or the token changes, if (token). *)
(***************************************************************************)
NoFetch == [pc |-> "idle", token |-> Null]

FetchWorlds ==
    /\ user # NoUser
    /\ token # Null
    /\ worlds.pc = "idle"
    /\ worlds.token # token
    /\ worlds' = [pc |-> "req", token |-> token]
    /\ UNCHANGED <<sessionVars, rw, probe, exchange, logged, fetched>>

\* the WorldsFindOne request is answered (the list shown is not modelled)
WorldsResponse ==
    /\ worlds.pc = "req"
    /\ worlds' = [worlds EXCEPT !.pc = "idle"]
    /\ UNCHANGED <<sessionVars, rw, probe, exchange, logged, fetched>>

(***************************************************************************)
(* The values passed to the logger by one step: the texts (usernames,      *)
(* error messages) and the token fields (a token, the redaction marker,    *)
(* or Null for a token field that is absent).                              *)
(***************************************************************************)
Redacted == "[REDACTED]"

NoLog == [texts |-> {}, tokens |-> {}]

\* handleGraphQLError's warn: { errors: responseData.errors, ... }
ErrorTexts(response) ==
    IF /\ response.fetchOk
       /\ ResponseOk(response.status)
       /\ response.bodyOk
       /\ response.hasErrors
    THEN {response.errors[i] : i \in DOMAIN response.errors}
    ELSE {}

\* { response: responseData }, logged when the payload lacks what was asked
PayloadTokens(response) == {response.data.token}

\* getHeaders' debug: 'Bluelibs-Token': token ? '[REDACTED]' : undefined
getHeadersLog(tok) == IF tok # Null THEN {Redacted} ELSE {}

\* a faulty variant of loginStartLog: the password is logged with the username
loginStartLogWithPassword(username, password) ==
    [texts |-> {username, password}, tokens |-> getHeadersLog(Null)]

\* login's operation up to its fetch: { username }, then getHeaders()
loginStartLog(username, password) ==
    [texts |-> {username}, tokens |-> getHeadersLog(Null)]

\* login's operation after its fetch: handleGraphQLError, the missing token,
\* the catch of an error that is no AuthError, then fetchUser's start
loginResponseLog(call, response) ==
    LET h == handleGraphQLError(response)
        r == loginOperation(response)
    IN  [texts |-> ErrorTexts(response)
                   \cup (IF ~response.fetchOk THEN {call.username} ELSE {}),
         tokens |-> (IF response.fetchOk /\ h.error = NoError
                        /\ h.data.token = Null
                     THEN PayloadTokens(response) ELSE {})
                    \cup (IF r.error = NoError
                          THEN {Redacted} \cup getHeadersLog(r.token) ELSE {})]

\* fetchUser's operation after its fetch, and what login logs after it
fetchUserResponseLog(call, response) ==
    LET h == handleGraphQLError(response)
        r == fetchUserOperation(response)
        thrown == r.error # NoError
                  /\ OnAttemptFailed(call.fetchAttempt, r.error,
                                     DEFAULT_RETRY_CONFIG) # "sleep"
    IN  [texts |-> ErrorTexts(response)
                   \cup (IF thrown /\ ~IsAuthError(r.error)
                         THEN {call.username} ELSE {}),
         tokens |-> (IF response.fetchOk /\ h.error = NoError
                        /\ ~h.data.me.present
                     THEN PayloadTokens(response) ELSE {})
                    \cup (IF r.error = NoError THEN {Redacted} ELSE {})]

\* the start of an operation that sends the token: its debug line with
\* token: '[REDACTED]', then getHeaders(token)
tokenRequestLog(tok) ==
    [texts |-> {}, tokens |-> {Redacted} \cup getHeadersLog(tok)]

\* refreshToken's operation after its fetch, and the callback's log
refreshResponseLog(response) ==
    LET h == handleGraphQLError(response) IN
    [texts |-> ErrorTexts(response),
     tokens |-> {Redacted}
                \cup (IF response.fetchOk /\ h.error = NoError
                         /\ h.data.token = Null
                      THEN PayloadTokens(response) ELSE {})]

\* logout's and validateToken's operation after the fetch
tokenResponseLog(response) ==
    [texts |-> ErrorTexts(response), tokens |-> {Redacted}]

(***************************************************************************)
(* fetchUser's operation on one answer to the Me request. In a payload ""  *)
(* stands for a falsy _id or email, "absent" for a fullName or isEnabled   *)
(* that is undefined or null; roles that are no array have rolesIsArray    *)
(* FALSE.                                                                  *)
(***************************************************************************)
NoFetched ==
    [pc |-> "idle", response |-> FetchRejected, error |-> NoError,
     user |-> NoUser]

RolesLists ==
    {<<>>, <<"ADMIN">>, <<"", "ADMIN">>, <<"ADMIN", "", "USER">>, <<"", "">>}

MePayloads ==
    {NoMe}
    \cup [present : {TRUE}, id : {"", "u1"}, email : {"", "a@x"},
          rolesIsArray : BOOLEAN, roles : RolesLists,
          fullName : {"absent", "", "Ann"},
          isEnabled : {"absent", "true", "false"}]

\* the Me request is answered: the operation returns the user or throws
FetchUserOperationRuns(response) ==
    /\ fetched' = [pc |-> "done", response |-> response,
                   error |-> fetchUserOperation(response).error,
                   user |-> fetchUserOperation(response).user]
    /\ UNCHANGED <<sessionVars, rw, probe, exchange, worlds, logged>>

(***************************************************************************)
(* The session: the provider, the service, its timers.                     *)
(***************************************************************************)
\* the tokens the Login and the RefreshToken mutations hand out
LoginTokens == {"t1"}
RefreshTokens == {"t2"}

NoProbe ==
    [username |-> <<>>, password |-> <<>>, attempts |-> 0,
     loginRequests |-> 0, meRequests |-> 0, firstLogin |-> "none",
     firstMe |-> "none", timersBefore |-> 0, everyLoginToken |-> TRUE,
     everyMeRetryable |-> TRUE]

\* no response has been handled
NoExchange ==
    [pc |-> "idle", response |-> FetchRejected, error |-> NoError,
     data |-> NoData]

InitSession ==
    /\ user = NoUser
    /\ token = Null
    /\ refreshTimeout = NoTimer
    /\ timers = <<>>
    /\ loginCalls = [c \in 1..MaxLoginCalls |-> IdleCall]
    /\ logoutCall = IdleLogout
    /\ startup = Unmounted
    /\ sessionLive = FALSE
    /\ settled = NoSettle

\* the Login page's call: its submit button is disabled while a call runs
PageCall == 1

\* the page loads with nothing left in localStorage
Init ==
    /\ InitSession
    /\ authToken = Null
    /\ rw = RetryIdle
    /\ probe = NoProbe
    /\ exchange = NoExchange
    /\ worlds = NoFetch
    /\ logged = NoLog
    /\ fetched = NoFetched

Next ==
    \/ Mount /\ UNCHANGED <<rw, probe, exchange, worlds, logged, fetched>>
    \/ \E u \in Usernames, p \in Passwords :
          AuthProviderLogin(PageCall, u, p) /\ UNCHANGED <<rw, probe, exchange, worlds, logged, fetched>>
    \/ LoginRetry(PageCall) /\ UNCHANGED <<rw, probe, exchange, worlds, logged, fetched>>
    \/ \E r \in TokenResponses(SomeFailures, LoginTokens) :
          LoginResponse(PageCall, r) /\ UNCHANGED <<rw, probe, exchange, worlds, logged, fetched>>
    \/ \E r \in MeResponses(SomeFailures, SomeMes) :
          FetchUserResponse(PageCall, r) /\ UNCHANGED <<rw, probe, exchange, worlds, logged, fetched>>
    \/ FetchUserRetry(PageCall) /\ UNCHANGED <<rw, probe, exchange, worlds, logged, fetched>>
    \/ \E t \in DOMAIN timers : RefreshTimerFires(t) /\ UNCHANGED <<rw, probe, exchange, worlds, logged, fetched>>
    \/ \E t \in DOMAIN timers, r \in TokenResponses(SomeFailures, RefreshTokens) :
          RefreshResponse(t, r) /\ UNCHANGED <<rw, probe, exchange, worlds, logged, fetched>>
    \/ \E t \in DOMAIN timers : RefreshRetry(t) /\ UNCHANGED <<rw, probe, exchange, worlds, logged, fetched>>
    \/ AuthProviderLogout /\ UNCHANGED <<rw, probe, exchange, worlds, logged, fetched>>
    \/ \E r \in LogoutResponses(SomeFailures) :
          LogoutResponse(r) /\ UNCHANGED <<rw, probe, exchange, worlds, logged, fetched>>
    \/ LogoutRetry /\ UNCHANGED <<rw, probe, exchange, worlds, logged, fetched>>

Spec == Init /\ [][Next]_vars

(***************************************************************************)
(* The page loads with a token left in localStorage: the startup effect,   *)
(* the storage listener, logout and the Worlds page.                       *)
(***************************************************************************)
InitStartup ==
    /\ InitSession
    /\ authToken \in Tokens
    /\ rw = RetryIdle
    /\ probe = NoProbe
    /\ exchange = NoExchange
    /\ worlds = NoFetch
    /\ logged = NoLog
    /\ fetched = NoFetched

NextStartup ==
    \/ Mount /\ UNCHANGED <<rw, probe, exchange, worlds, logged, fetched>>
    \/ \E r \in ValidateResponses(AllFailures) :
          ValidateResponse(r) /\ UNCHANGED <<rw, probe, exchange, worlds, logged, fetched>>
    \/ ValidateRetry /\ UNCHANGED <<rw, probe, exchange, worlds, logged, fetched>>
    \/ \E r \in MeResponses(AllFailures, AllMes) :
          UsersFindOneResponse(r) /\ UNCHANGED <<rw, probe, exchange, worlds, logged, fetched>>
    \/ \E v \in Tokens \cup {Null} :
          StorageEvent(v) /\ UNCHANGED <<rw, probe, exchange, worlds, logged, fetched>>
    \/ AuthProviderLogout /\ UNCHANGED <<rw, probe, exchange, worlds, logged, fetched>>
    \/ \E r \in LogoutResponses(AllFailures) :
          LogoutResponse(r) /\ UNCHANGED <<rw, probe, exchange, worlds, logged, fetched>>
    \/ LogoutRetry /\ UNCHANGED <<rw, probe, exchange, worlds, logged, fetched>>
    \/ FetchWorlds
    \/ WorldsResponse

SpecStartup == InitStartup /\ [][NextStartup]_vars

(***************************************************************************)
(* One login call after another, watched by an observer (probe): the       *)
(* credentials, the attempts of login's retry loop, the Login and Me       *)
(* requests sent, the first answer to each, and the timers that existed    *)
(* when the call started.                                                  *)
(***************************************************************************)
\* 1 if the step sends a request of the call at pc, else 0
Sends(pc) == IF loginCalls'[PageCall].pc = pc THEN 1 ELSE 0

LoginAnswer(response) ==
    IF loginOperation(response).error = NoError THEN "token"
    ELSE IF handleGraphQLError(response).error = NoError /\ response.fetchOk
    THEN "notoken"
    ELSE "failure"

MeAnswer(response) ==
    IF response.fetchOk /\ response.status = 401 /\ response.bodyOk THEN "401"
    ELSE "other"

\* the answer makes fetchUser's operation throw an error that
\* retryWithBackoff retries
MeFailsRetryable(response) ==
    LET e == fetchUserOperation(response).error IN
    /\ e # NoError
    /\ e \notin {"InvalidCredentialsError", "TokenExpiredError",
                 "TokenInvalidError", "ValidationError"}

ObservedLogin(username, password) ==
    /\ AuthProviderLogin(PageCall, username, password)
    /\ probe' = [NoProbe EXCEPT !.username = username,
                                !.password = password,
                                !.attempts = 1,
                                !.loginRequests = Sends("login_req"),
                                !.timersBefore = Len(timers)]
    /\ UNCHANGED <<rw, exchange, worlds, logged, fetched>>

ObservedLoginRetry ==
    /\ LoginRetry(PageCall)
    /\ probe' = [probe EXCEPT !.attempts = @ + 1,
                              !.loginRequests = @ + Sends("login_req")]
    /\ UNCHANGED <<rw, exchange, worlds, logged, fetched>>

ObservedLoginResponse(response) ==
    /\ LoginResponse(PageCall, response)
    /\ probe' = [probe EXCEPT
                   !.meRequests = @ + Sends("me_req"),
                   !.firstLogin = IF @ = "none" THEN LoginAnswer(response)
                                  ELSE @,
                   !.everyLoginToken = @ /\ LoginAnswer(response) = "token"]
    /\ UNCHANGED <<rw, exchange, worlds, logged, fetched>>

ObservedFetchUserResponse(response) ==
    /\ FetchUserResponse(PageCall, response)
    /\ probe' = [probe EXCEPT
                   !.firstMe = IF @ = "none" THEN MeAnswer(response) ELSE @,
                   !.everyMeRetryable = @ /\ MeFailsRetryable(response)]
    /\ UNCHANGED <<rw, exchange, worlds, logged, fetched>>

ObservedFetchUserRetry ==
    /\ FetchUserRetry(PageCall)
    /\ probe' = [probe EXCEPT !.meRequests = @ + Sends("me_req")]
    /\ UNCHANGED <<rw, exchange, worlds, logged, fetched>>

NextLogin ==
    \/ Mount /\ UNCHANGED <<rw, probe, exchange, worlds, logged, fetched>>
    \/ \E u \in Usernames, p \in Passwords : ObservedLogin(u, p)
    \/ ObservedLoginRetry
    \/ \E r \in TokenResponses(AllFailures, Tokens) : ObservedLoginResponse(r)
    \/ \E r \in MeResponses(AllFailures, AllMes) : ObservedFetchUserResponse(r)
    \/ ObservedFetchUserRetry

SpecLogin == Init /\ [][NextLogin]_vars

(***************************************************************************)
(* retryWithBackoff alone, over every configuration and every outcome.     *)
(***************************************************************************)
NextRetry ==
    \/ \E cfg \in RetryConfigs : RetryCall(cfg)
    \/ OperationReturns
    \/ \E e \in ErrorClasses : OperationThrows(e)
    \/ SleepEnds

SpecRetry == Init /\ [][NextRetry]_vars

\* the same with the scheduling the runtime gives: the promise of an
\* invocation settles (the transport completes) and the timer of a sleep
\* fires; nothing else can touch the loop of a call
SpecRetryLive ==
    /\ Init
    /\ [][NextRetry]_vars
    /\ WF_vars(OperationReturns \/ \E e \in ErrorClasses : OperationThrows(e))
    /\ WF_vars(SleepEnds)

(***************************************************************************)
(* handleGraphQLError alone, over responses of every status, with and      *)
(* without a readable body, an error list and a payload.                   *)
(***************************************************************************)
Statuses ==
    {200, 201, 204, 299, 300, 304, 400, 401, 403, 404, 429, 499, 500, 501,
     503, 599}

ErrorLists ==
    {<<>>} \cup {<<m>> : m \in Messages}
    \cup {<<MsgInternal, MsgTokenExpired>>, <<MsgBadCredentials, MsgInvalidToken>>}

Payloads ==
    {NoData, [NoData EXCEPT !.token = "t1"],
     [NoData EXCEPT !.me = MeOf("u1", "a@x")], [NoData EXCEPT !.valid = "true"]}

\* the responses fetch can resolve with; an envelope has errors or not, and
\* an unreadable body has no envelope
Responses ==
    {r \in [fetchOk : {TRUE}, status : Statuses, bodyOk : BOOLEAN,
            hasErrors : BOOLEAN, errors : ErrorLists, data : Payloads] :
        /\ r.hasErrors \/ r.errors = <<>>
        /\ r.bodyOk \/ (~r.hasErrors /\ r.data = NoData)}

\* await this.handleGraphQLError(response, operation)
HandleResponse(response) ==
    /\ exchange' = [pc |-> "handled", response |-> response,
                    error |-> handleGraphQLError(response).error,
                    data |-> handleGraphQLError(response).data]
    /\ UNCHANGED <<sessionVars, rw, probe, worlds, logged, fetched>>

NextTransport == \E r \in Responses : HandleResponse(r)

SpecTransport == Init /\ [][NextTransport]_vars

(***************************************************************************)
(* fetchUser's operation alone, over every failure and every Me payload.   *)
(***************************************************************************)
NextFetchUser ==
    \E r \in MeResponses(AllFailures, MePayloads) : FetchUserOperationRuns(r)

SpecFetchUser == Init /\ [][NextFetchUser]_vars

(***************************************************************************)
(* Overlapping logins: several callers of AuthProvider.login, nothing      *)
(* else. The server answers Me with the user the token belongs to.         *)
(***************************************************************************)
MeFor(tok) == IF tok = "t1" THEN MeOf("u1", "a@x") ELSE MeOf("u2", "b@x")

NextOverlap ==
    \/ Mount /\ UNCHANGED <<rw, probe, exchange, worlds, logged, fetched>>
    \/ \E c \in 1..MaxLoginCalls, u \in Usernames, p \in Passwords :
          AuthProviderLogin(c, u, p) /\ UNCHANGED <<rw, probe, exchange, worlds, logged, fetched>>
    \/ \E c \in 1..MaxLoginCalls :
          LoginRetry(c) /\ UNCHANGED <<rw, probe, exchange, worlds, logged, fetched>>
    \/ \E c \in 1..MaxLoginCalls, r \in TokenResponses(SomeFailures, Tokens) :
          LoginResponse(c, r) /\ UNCHANGED <<rw, probe, exchange, worlds, logged, fetched>>
    \/ \E c \in 1..MaxLoginCalls :
          \E r \in MeResponses(SomeFailures, {MeFor(loginCalls[c].token)}) :
             FetchUserResponse(c, r) /\ UNCHANGED <<rw, probe, exchange, worlds, logged, fetched>>
    \/ \E c \in 1..MaxLoginCalls :
          FetchUserRetry(c) /\ UNCHANGED <<rw, probe, exchange, worlds, logged, fetched>>

SpecOverlap == Init /\ [][NextOverlap]_vars

(***************************************************************************)
(* The operations with what each step passes to the logger. The page loads *)
(* with or without a stored token; the Login page is used once the startup *)
(* check is over.                                                          *)
(***************************************************************************)
InitLogging ==
    /\ InitSession
    /\ authToken \in LoginTokens \cup {Null}
    /\ rw = RetryIdle
    /\ probe = NoProbe
    /\ exchange = NoExchange
    /\ worlds = NoFetch
    /\ logged = NoLog
    /\ fetched = NoFetched

NextLogging ==
    \/ /\ Mount
       /\ logged' = IF authToken # Null THEN tokenRequestLog(authToken)
                    ELSE NoLog
       /\ UNCHANGED <<rw, probe, exchange, worlds, fetched>>
    \/ \E r \in ValidateResponses(SomeFailures) :
          /\ ValidateResponse(r)
          /\ logged' = tokenResponseLog(r)
          /\ UNCHANGED <<rw, probe, exchange, worlds, fetched>>
    \/ /\ ValidateRetry
       /\ logged' = tokenRequestLog(startup.storedToken)
       /\ UNCHANGED <<rw, probe, exchange, worlds, fetched>>
    \/ \E r \in MeResponses(SomeFailures, SomeMes) :
          /\ UsersFindOneResponse(r)
          /\ logged' = NoLog
          /\ UNCHANGED <<rw, probe, exchange, worlds, fetched>>
    \/ \E u \in Usernames, p \in Passwords :
          /\ startup.pc = "done"
          /\ AuthProviderLogin(PageCall, u, p)
          /\ logged' = loginStartLog(u, p)
          /\ UNCHANGED <<rw, probe, exchange, worlds, fetched>>
    \/ /\ LoginRetry(PageCall)
       /\ logged' = loginStartLog(loginCalls[PageCall].username,
                                  loginCalls[PageCall].password)
       /\ UNCHANGED <<rw, probe, exchange, worlds, fetched>>
    \/ \E r \in TokenResponses(SomeFailures, LoginTokens) :
          /\ LoginResponse(PageCall, r)
          /\ logged' = loginResponseLog(loginCalls[PageCall], r)
          /\ UNCHANGED <<rw, probe, exchange, worlds, fetched>>
    \/ \E r \in MeResponses(SomeFailures, SomeMes) :
          /\ FetchUserResponse(PageCall, r)
          /\ logged' = fetchUserResponseLog(loginCalls[PageCall], r)
          /\ UNCHANGED <<rw, probe, exchange, worlds, fetched>>
    \/ /\ FetchUserRetry(PageCall)
       /\ logged' = tokenRequestLog(loginCalls[PageCall].token)
       /\ UNCHANGED <<rw, probe, exchange, worlds, fetched>>
    \/ \E t \in DOMAIN timers :
          /\ RefreshTimerFires(t)
          /\ logged' = tokenRequestLog(timers[t].token)
          /\ UNCHANGED <<rw, probe, exchange, worlds, fetched>>
    \/ \E t \in DOMAIN timers, r \in TokenResponses(SomeFailures, RefreshTokens) :
          /\ RefreshResponse(t, r)
          /\ logged' = refreshResponseLog(r)
          /\ UNCHANGED <<rw, probe, exchange, worlds, fetched>>
    \/ \E t \in DOMAIN timers :
          /\ RefreshRetry(t)
          /\ logged' = tokenRequestLog(timers[t].token)
          /\ UNCHANGED <<rw, probe, exchange, worlds, fetched>>
    \/ /\ AuthProviderLogout
       /\ logged' = IF token # Null THEN tokenRequestLog(token) ELSE NoLog
       /\ UNCHANGED <<rw, probe, exchange, worlds, fetched>>
    \/ \E r \in LogoutResponses(SomeFailures) :
          /\ LogoutResponse(r)
          /\ logged' = tokenResponseLog(r)
          /\ UNCHANGED <<rw, probe, exchange, worlds, fetched>>
    \/ /\ LogoutRetry
       /\ logged' = tokenRequestLog(logoutCall.token)
       /\ UNCHANGED <<rw, probe, exchange, worlds, fetched>>

SpecLogging == InitLogging /\ [][NextLogging]_vars

\* No session has been scheduled since the page loaded or since the last
\* logout that reached the service: refreshTimeout is set by every login
\* that succeeds (scheduleTokenRefresh) and reset to null only by
\* AuthService.logout after its request succeeded.
LoggedOut == startup.pc # "unmounted" /\ refreshTimeout = NoTimer

(***************************************************************************)
(* Properties.                                                             *)
(***************************************************************************)

\* C1: a login with a username shorter than 3 characters or a password
\* shorter than 6 fails with ValidationError after exactly one attempt of the
\* retry loop and without any network request.
C1_InvalidCredentialsFailOnce ==
    (probe.attempts > 0
       /\ (Len(probe.username) < 3 \/ Len(probe.password) < 6))
    => /\ settled = Settle("login", "ValidationError", Null)
       /\ loginCalls[PageCall].pc = "idle"
       /\ probe.attempts = 1
       /\ probe.loginRequests = 0
       /\ probe.meRequests = 0

\* a login with a valid username and a password of 5 characters was rejected
C1_Witness ==
    /\ probe.attempts = 1
    /\ Len(probe.username) >= 3
    /\ Len(probe.password) = 5
    /\ settled.call = "login"
    /\ settled.error = "ValidationError"

\* C2: retryWithBackoff invokes the operation exactly maxRetries times when
\* every attempt fails with a retryable error, exactly once when the first
\* attempt fails with a non-retryable error, and never again after a success.
C2_InvocationCount ==
    LET n == Len(rw.outcomes)
        fatal(e) == e \in {"InvalidCredentialsError", "TokenExpiredError",
                           "TokenInvalidError", "ValidationError"}
        retryable(e) == e # NoError /\ ~fatal(e)
        invocations == IF rw.pc = "operation" THEN n + 1 ELSE n
    IN  /\ invocations <= rw.cfg.maxRetries
        /\ (rw.pc = "thrown" /\ \A i \in 1..n : retryable(rw.outcomes[i]))
           => n = rw.cfg.maxRetries
        /\ (\A i \in 1..n : retryable(rw.outcomes[i])) /\ n < rw.cfg.maxRetries
           => rw.pc \in {"idle", "operation", "sleep"}
        /\ (n >= 1 /\ fatal(rw.outcomes[1])) => (n = 1 /\ rw.pc = "thrown")
        /\ \A i \in 1..n :
              rw.outcomes[i] = NoError => (i = n /\ rw.pc = "returned")

\* three retryable failures under maxRetries = 3: the call has thrown
C2_Witness ==
    /\ rw.pc = "thrown"
    /\ rw.cfg.maxRetries = 3
    /\ rw.outcomes = <<"NetworkError", "ServerError", "AuthError">>

\* C3: validateToken never throws: every failure is reported as false.
C3_ValidateTokenNeverThrows ==
    settled.call = "validateToken" => settled.error = NoError

\* C4: when the refresh callback succeeds, the persisted token is the new
\* token and a new refresh callback is scheduled.
C4_RefreshReschedules ==
    (settled.call = "refresh" /\ settled.error = NoError)
    => (authToken = settled.value /\ PendingTimers # {})

\* C5: the user is non-null exactly when a login has completed successfully
\* and has not since been invalidated by a logout or by an unrecoverable
\* token error.
C5_UserIffLiveSession == (user # NoUser) <=> sessionLive

\* C6: at most one refresh callback is pending at any time.
C6_OnePendingRefresh == Cardinality(PendingTimers) <= 1

\* a second login replaced the timer of the first
C6_Witness ==
    /\ \E t \in DOMAIN timers : timers[t].state = "cleared"
    /\ PendingTimers = {refreshTimeout}

\* C7: when logout(token) succeeds, no refresh callback remains pending.
C7_LogoutClearsRefresh ==
    settled = Settle("logout", NoError, "remote")
    => (PendingTimers = {} /\ refreshTimeout = NoTimer)

\* a logout succeeded while the only timer was pending, and cleared it
C7_Witness ==
    /\ settled = Settle("logout", NoError, "remote")
    /\ Len(timers) = 1
    /\ timers[1].state = "cleared"

\* C8: when the scheduled refresh fails with TokenExpired or TokenInvalid,
\* the persisted token is cleared.
C8_RefreshTokenErrorClearsStorage ==
    (settled.call = "refresh"
       /\ settled.error \in {"TokenExpiredError", "TokenInvalidError"})
    => authToken = Null

\* the refresh of a logged-in session failed with TokenInvalid
C8_Witness ==
    /\ settled = Settle("refresh", "TokenInvalidError", Null)
    /\ user # NoUser
    /\ authToken = Null

\* C9: wherever TokenExpired or TokenInvalid is detected, by the scheduled
\* refresh or by the validation of the stored token, the persisted token is
\* cleared.
C9_TokenErrorClearsStorage ==
    (settled.call \in {"refresh", "validateToken"}
       /\ settled.error \in {"TokenExpiredError", "TokenInvalidError"})
    => authToken = Null

\* C10: when Login returns a token and Me is answered 401, login rejects
\* with TokenInvalid without a retry: one Login request, one Me request, no
\* refresh scheduled.
C10_Me401RejectsOnce ==
    (probe.firstLogin = "token" /\ probe.firstMe = "401")
    => /\ settled = Settle("login", "TokenInvalidError", Null)
       /\ loginCalls[PageCall].pc = "idle"
       /\ probe.attempts = 1
       /\ probe.loginRequests = 1
       /\ probe.meRequests = 1
       /\ Len(timers) = probe.timersBefore

\* the first Me request of a login was answered 401 and the call is over
C10_Witness ==
    /\ probe.firstLogin = "token"
    /\ probe.firstMe = "401"
    /\ probe.meRequests = 1
    /\ settled.call = "login"

\* C11: the facade's logout with no token in memory sends no request and
\* does not throw; token, user and persisted token are absent afterwards, and
\* a logout repeated in that state changes nothing.
C11_LogoutWithoutSession ==
    /\ [](settled = Settle("logout", NoError, "local")
            => /\ token = Null
               /\ user = NoUser
               /\ authToken = Null
               /\ logoutCall.pc = "idle")
    /\ [][(settled = Settle("logout", NoError, "local")
             /\ settled' = Settle("logout", NoError, "local"))
          => UNCHANGED vars]_vars

\* a logout without a token in memory removed the token a previous login
\* had persisted (a later login had failed and reset the memory)
C11_Witness ==
    /\ settled = Settle("logout", NoError, "local")
    /\ timers # <<>>
    /\ authToken = Null

\* C12: within one call of retryWithBackoff the delay waited before attempt
\* n+1 is min(initialDelay * backoffFactor^(n-1), maxDelay); the delays are
\* non-decreasing, none exceeds maxDelay, and none is waited after the final
\* attempt.
C12_BackoffDelays ==
    LET cfg == rw.cfg
        w == rw.waits
        n == Len(rw.outcomes)
        pow[e \in 0..MaxRetriesBound] ==
            IF e = 0 THEN 1 ELSE cfg.backoffFactor * pow[e - 1]
        expected(k) ==
            IF cfg.initialDelay * pow[k - 1] <= cfg.maxDelay
            THEN cfg.initialDelay * pow[k - 1] ELSE cfg.maxDelay
    IN  /\ \A k \in 1..Len(w) : w[k] = expected(k)
        /\ \A k \in 1..Len(w) : w[k] <= cfg.maxDelay
        /\ \A k \in 1..(Len(w) - 1) : w[k] <= w[k + 1]
        /\ Len(w) = IF rw.pc = "sleep" THEN n
                    ELSE IF n = 0 THEN 0
                    ELSE IF rw.pc = "operation" THEN n
                    ELSE n - 1
        /\ Len(w) < cfg.maxRetries

\* four attempts from an initial delay of 6000: the cap was reached twice
C12_Witness ==
    /\ rw.pc = "thrown"
    /\ rw.waits = <<6000, 10000, 10000>>

\* C13: retryWithBackoff never suppresses a failure: a non-retryable error
\* is rethrown unchanged when it first occurs, when all attempts fail the
\* error thrown is that of the last attempt, and the call returns only after
\* an attempt that succeeded.
C13_FailurePropagates ==
    LET n == Len(rw.outcomes)
        fatal(e) == e \in {"InvalidCredentialsError", "TokenExpiredError",
                           "TokenInvalidError", "ValidationError"}
    IN  /\ rw.pc = "thrown"
           => (n >= 1 /\ rw.thrown = rw.outcomes[n] /\ rw.thrown # NoError)
        /\ \A i \in 1..n :
              fatal(rw.outcomes[i])
              => (i = n /\ rw.pc = "thrown" /\ rw.thrown = rw.outcomes[i])
        /\ rw.pc = "returned" => (n >= 1 /\ rw.outcomes[n] = NoError)
        /\ (n >= 1 /\ rw.outcomes[n] # NoError /\ n = rw.cfg.maxRetries)
           => rw.pc = "thrown"

\* two retryable failures then a third under maxRetries = 3: the third error
\* is the one thrown
C13_Witness ==
    /\ rw.pc = "thrown"
    /\ rw.cfg.maxRetries = 3
    /\ rw.outcomes = <<"NetworkError", "NetworkError", "UserNotFoundError">>
    /\ rw.thrown = "UserNotFoundError"

\* C14: for every non-2xx response handleGraphQLError fails with the class
\* the status alone determines (401 TokenInvalid, 404 UserNotFound, >= 500
\* Server, any other Network), and with Network when the error body cannot
\* be read.
C14_StatusClassification ==
    LET r == exchange.response
        byStatus == IF r.status = 401 THEN "TokenInvalidError"
                    ELSE IF r.status = 404 THEN "UserNotFoundError"
                    ELSE IF r.status >= 500 THEN "ServerError"
                    ELSE "NetworkError"
    IN  (exchange.pc = "handled" /\ (r.status < 200 \/ r.status > 299))
        => /\ exchange.error = IF r.bodyOk THEN byStatus ELSE "NetworkError"
           /\ exchange.data = NoData

\* a 500 whose body carries an error list about an expired token is a
\* ServerError
C14_Witness ==
    /\ exchange.pc = "handled"
    /\ exchange.response.status = 500
    /\ exchange.response.errors = <<MsgTokenExpired>>
    /\ exchange.error = "ServerError"

\* C15: for every 2xx response with a GraphQL error list handleGraphQLError
\* fails with the class chosen from the first error's message: "expired"
\* TokenExpired, else "invalid" TokenInvalid, else "credentials"
\* InvalidCredentials, else AuthError; a 2xx response without errors returns
\* the payload; a response that cannot be parsed (an unreadable body, an
\* error list without a first error) gives Network.
C15_MessageClassification ==
    LET r == exchange.response
        has(m, w) == \E i \in 1..Len(m) :
                        /\ i + Len(w) - 1 <= Len(m)
                        /\ SubSeq(m, i, i + Len(w) - 1) = w
        byMessage(m) ==
            IF has(m, <<"e","x","p","i","r","e","d">>) THEN "TokenExpiredError"
            ELSE IF has(m, <<"i","n","v","a","l","i","d">>)
            THEN "TokenInvalidError"
            ELSE IF has(m, <<"c","r","e","d","e","n","t","i","a","l","s">>)
            THEN "InvalidCredentialsError"
            ELSE "AuthError"
    IN  (exchange.pc = "handled" /\ r.status >= 200 /\ r.status <= 299)
        => IF ~r.bodyOk \/ (r.hasErrors /\ r.errors = <<>>)
           THEN exchange.error = "NetworkError"
           ELSE IF r.hasErrors
           THEN exchange.error = byMessage(r.errors[1])
           ELSE exchange.error = NoError /\ exchange.data = r.data

\* a 200 whose first error says "invalid or expired" is a TokenExpiredError
C15_Witness ==
    /\ exchange.pc = "handled"
    /\ exchange.response.status = 200
    /\ exchange.response.errors = <<MsgInvalidOrExpired>>
    /\ exchange.error = "TokenExpiredError"

\* C16: every external change of the persisted token observed through a
\* storage notification is applied to the in-memory token: once the
\* notification is handled the in-memory token equals the value in the store,
\* also when the change removed the token.
C16_StorageChangeIsAuthoritative ==
    settled.call = "storage" => token = authToken

\* C17: overlapping login calls are not serialised and the session state
\* is that of the call whose mutation ran last; the in-memory token and
\* user are always the pair one single login call produced (or both absent),
\* never the token of one call with the user of another.
C17_LoginPairIsOneCalls ==
    /\ (token = Null) <=> (user = NoUser)
    /\ token # Null => user = BuildUser(MeFor(token))
    /\ settled.call = "login"
       => IF settled.error = NoError
          THEN token = settled.value /\ authToken = settled.value
          ELSE token = Null

\* a second call resolved with its own token and user while the first call,
\* holding another token, is still waiting for its Me request
C17_Witness ==
    /\ loginCalls[1].pc = "me_req"
    /\ loginCalls[1].token = "t1"
    /\ settled = Settle("login", NoError, "t2")
    /\ token = "t2"
    /\ user.id = "u2"

\* C19: every request that carries the session token carries it under one
\* and the same header name, the one the auth service uses.
C19_OneTokenHeader ==
    \A r \in RequestsInFlight :
        r.header # NoAuthHeader => r.header.name = getHeaders("t1").name

\* C18: within one login call the steps happen in the order validate the
\* credentials, send the Login request without a token, fetch the user with
\* the token received, schedule the refresh; the refresh is scheduled only
\* once token and user were obtained, and a login that fails schedules
\* nothing.
C18_LoginStepOrder ==
    LET call == loginCalls[PageCall]
        valid == Len(probe.username) >= 3 /\ Len(probe.password) >= 6
        scheduled == Len(timers) - probe.timersBefore
    IN  /\ probe.loginRequests > 0 => valid
        /\ probe.meRequests > 0 => probe.loginRequests > 0
        /\ call.pc = "login_req"
           => /\ call.token = Null
              /\ RequestsInFlight = {Request("Login", NoAuthHeader)}
        /\ call.pc \in {"me_req", "me_sleep"} => call.token \in Tokens
        /\ call.pc = "me_req"
           => RequestsInFlight =
                {Request("Me", [name |-> "Bluelibs-Token", scheme |-> "none",
                                value |-> call.token])}
        /\ call.pc # "idle" => scheduled = 0
        /\ scheduled # 0
           => /\ scheduled = 1
              /\ settled.call = "login"
              /\ settled.error = NoError
              /\ timers[Len(timers)].token = settled.value
              /\ token = settled.value
              /\ user # NoUser
              /\ probe.meRequests > 0
        /\ (settled.call = "login" /\ settled.error # NoError)
           => scheduled = 0

\* a login resolved on the second attempt of its retry loop and scheduled
\* its one refresh
C18_Witness ==
    /\ probe.attempts = 2
    /\ settled.call = "login"
    /\ settled.error = NoError
    /\ Len(timers) = probe.timersBefore + 1
    /\ timers[Len(timers)].state = "pending"

\* C20: across every sequence of login, logout, refresh and validation
\* operations the password is never written to the persisted store, and
\* neither the password nor a token value is passed to the logger in
\* cleartext: a token appears only as the redaction marker.
C20_NoSecretLogged ==
    /\ logged.texts \cap (Passwords \ {<<>>}) = {}
    /\ logged.tokens \subseteq {Redacted, Null}
    /\ authToken \in Tokens \cup {Null}

\* a login with a valid password received its token: the username had been
\* logged, now the token is logged as the marker
C20_Witness ==
    /\ loginCalls[PageCall].pc = "me_req"
    /\ loginCalls[PageCall].password = <<"s","e","c","r","e","t">>
    /\ loginCalls[PageCall].token \in Tokens
    /\ logged.tokens = {Redacted}

\* C21: every call of retryWithBackoff eventually completes, by returning
\* or by throwing, after at most maxRetries invocations of the operation,
\* provided each invocation and each backoff wait completes; nothing outside
\* the loop ends it, and once completed the call stays completed.
C21_RetryTerminates ==
    /\ (rw.pc # "idle") ~> (rw.pc \in {"returned", "thrown"})
    /\ [](rw.pc \in {"operation", "sleep"} => rw.attempt <= rw.cfg.maxRetries)
    /\ [][rw.pc \in {"returned", "thrown"} => rw' = rw]_vars
    /\ [][rw.pc \in {"operation", "sleep"}
            => rw'.pc \in {"operation", "sleep", "returned", "thrown"}]_vars

\* a call under maxRetries = 4 returned from its fourth invocation, after
\* three failures and three waits
C21_Witness ==
    /\ rw.pc = "returned"
    /\ rw.cfg.maxRetries = 4
    /\ Len(rw.outcomes) = 4
    /\ Len(rw.waits) = 3

\* C22: when the Login request is answered at transport level with a payload
\* that holds no token, login rejects with InvalidCredentials without a
\* retry: exactly one Login request, no Me request, no refresh scheduled.
C22_NoTokenRejectsOnce ==
    probe.firstLogin = "notoken"
    => /\ settled = Settle("login", "InvalidCredentialsError", Null)
       /\ loginCalls[PageCall].pc = "idle"
       /\ probe.attempts = 1
       /\ probe.loginRequests = 1
       /\ probe.meRequests = 0
       /\ Len(timers) = probe.timersBefore

\* the first Login request of a call with valid credentials was answered
\* with a payload without a token, and the call is over
C22_Witness ==
    /\ probe.firstLogin = "notoken"
    /\ probe.password = <<"s","e","c","r","e","t">>
    /\ probe.loginRequests = 1
    /\ settled.call = "login"
    /\ settled.error = "InvalidCredentialsError"

\* C23: when the scheduled refresh fails with an error other than
\* TokenExpired or TokenInvalid, the callback leaves the persisted token as
\* it was and neither retries nor reschedules the refresh: no timer is
\* created, the pending timers are the same, and the callback is over.
C23_OtherRefreshFailureChangesNothing ==
    [][(settled'.call = "refresh"
          /\ settled'.error \notin {NoError, "TokenExpiredError",
                                    "TokenInvalidError"})
       => /\ authToken' = authToken
          /\ token' = token
          /\ user' = user
          /\ refreshTimeout' = refreshTimeout
          /\ Len(timers') = Len(timers)
          /\ {i \in DOMAIN timers' : timers'[i].state = "pending"}
               = PendingTimers
          /\ \A i \in DOMAIN timers' :
                timers'[i].state \notin {"refresh_req", "refresh_sleep"}
                \/ timers'[i] = timers[i]]_vars

\* the refresh of a logged-in session failed with TokenRefreshError after
\* its retries: the token persisted by the login is still there and no
\* timer is pending
C23_Witness ==
    /\ settled = Settle("refresh", "TokenRefreshError", Null)
    /\ authToken = "t1"
    /\ token = "t1"
    /\ PendingTimers = {}

\* C24: fetchUser returns a user only when the Me payload holds a non-empty
\* id and a non-empty email, otherwise it fails with UserNotFound; the
\* returned user's roles are the non-empty entries of the payload's roles
\* (none when roles is absent or no list), its fullName is the empty string
\* when absent, and its isEnabled is true when absent and else the value
\* sent: false stays false.
C24_FetchUserNormalises ==
    LET r == fetched.response
        me == r.data.me
        u == fetched.user
        clean == /\ r.fetchOk
                 /\ r.status >= 200 /\ r.status <= 299
                 /\ r.bodyOk
                 /\ ~r.hasErrors
        kept == {i \in DOMAIN me.roles : me.roles[i] # ""}
    IN  fetched.pc = "done"
        => /\ (fetched.error = NoError)
              <=> (clean /\ me.present /\ me.id # "" /\ me.email # "")
           /\ fetched.error # NoError => u = NoUser
           /\ (clean /\ fetched.error # NoError)
              => fetched.error = "UserNotFoundError"
           /\ fetched.error = NoError
              => /\ u.id = me.id
                 /\ u.email = me.email
                 /\ \A i \in DOMAIN u.roles : u.roles[i] # ""
                 /\ IF me.rolesIsArray
                    THEN /\ Len(u.roles) = Cardinality(kept)
                         /\ {u.roles[i] : i \in DOMAIN u.roles}
                              = {me.roles[i] : i \in kept}
                    ELSE u.roles = <<>>
                 /\ u.fullName = (IF me.fullName = "absent" THEN ""
                                  ELSE me.fullName)
                 /\ u.isEnabled \in {"true", "false"}
                 /\ me.isEnabled = "absent" => u.isEnabled = "true"
                 /\ me.isEnabled # "absent" => u.isEnabled = me.isEnabled

\* a disabled user whose roles hold an empty entry and whose fullName is
\* absent was returned: disabled, with the two roles left, named ""
C24_Witness ==
    /\ fetched.pc = "done"
    /\ fetched.error = NoError
    /\ fetched.response.data.me.isEnabled = "false"
    /\ fetched.response.data.me.fullName = "absent"
    /\ fetched.response.data.me.roles = <<"ADMIN", "", "USER">>
    /\ fetched.user.isEnabled = "false"
    /\ fetched.user.fullName = ""
    /\ fetched.user.roles = <<"ADMIN", "USER">>

\* C25 as stated: one login call sends at most maxRetries Login requests and
\* at most maxRetries * maxRetries Me requests; when every Me request fails
\* with a retryable error, it has sent exactly maxRetries Login requests and
\* maxRetries * maxRetries Me requests when it rejects.
C25_AsStated ==
    /\ probe.loginRequests <= maxRetries
    /\ probe.meRequests <= maxRetries * maxRetries
    /\ (probe.attempts > 0 /\ loginCalls[PageCall].pc = "idle"
          /\ probe.meRequests > 0 /\ probe.everyMeRetryable)
       => /\ settled.call = "login"
          /\ settled.error # NoError
          /\ probe.loginRequests = maxRetries
          /\ probe.meRequests = maxRetries * maxRetries

\* C25: one login call sends at most maxRetries Login requests and at most
\* maxRetries * maxRetries Me requests; when every Login request is answered
\* with a token and every Me request fails with a retryable error, it has
\* sent exactly maxRetries Login requests and maxRetries * maxRetries Me
\* requests when it rejects.
C25_NestedRetryCounts ==
    /\ probe.loginRequests <= maxRetries
    /\ probe.meRequests <= maxRetries * maxRetries
    /\ probe.meRequests <= maxRetries * probe.loginRequests
    /\ (probe.attempts > 0 /\ loginCalls[PageCall].pc = "idle"
          /\ probe.loginRequests > 0
          /\ probe.everyLoginToken /\ probe.everyMeRetryable)
       => /\ settled.call = "login"
          /\ settled.error # NoError
          /\ probe.attempts = maxRetries
          /\ probe.loginRequests = maxRetries
          /\ probe.meRequests = maxRetries * maxRetries

\* a login rejected after three Login requests, each answered with a token,
\* and nine Me requests, each failed
C25_Witness ==
    /\ loginCalls[PageCall].pc = "idle"
    /\ settled.call = "login"
    /\ settled.error # NoError
    /\ probe.everyLoginToken
    /\ probe.everyMeRetryable
    /\ probe.loginRequests = 3
    /\ probe.meRequests = 9

\* C26: after the facade's logout has completed successfully the persisted
\* token stays absent until the next successful login, under every
\* interleaving, also when the refresh timer had fired and its refreshToken
\* call was in flight when the logout ran.
C26_LoggedOutStaysLoggedOut == LoggedOut => authToken = Null

\* C27: in every reachable state of the facade, under every interleaving of
\* the startup token check, login, logout and storage notifications, a
\* non-null user implies a non-null in-memory token: isAuthenticated is
\* never true while the token is null.
C27_UserImpliesToken == user # NoUser => token # Null

\* C28: when the remote Logout call fails, after its retries or at once with
\* a non-retryable error, the facade's logout rethrows the error and changes
\* nothing: no step of the call touches the in-memory token, the user, the
\* persisted token or the refresh timers.
C28_FailedLogoutChangesNothing ==
    [][(logoutCall' # logoutCall
          /\ ~(settled'.call = "logout" /\ settled'.error = NoError))
       => /\ UNCHANGED <<token, user, authToken, refreshTimeout, timers>>
          /\ (logoutCall.pc = "logout_req" /\ logoutCall'.pc = "idle")
             => /\ settled'.call = "logout"
                /\ settled'.error \in AuthErrorClasses]_vars

\* a logout of a logged-in session failed with TokenInvalid: token, user,
\* persisted token and the pending refresh are still there
C28_Witness ==
    /\ settled = Settle("logout", "TokenInvalidError", Null)
    /\ token = "t1"
    /\ user # NoUser
    /\ authToken = "t1"
    /\ PendingTimers = {refreshTimeout}

\* C29: a facade login that fails sets the in-memory token and user to null
\* and rethrows the error, also when a session existed before the call, and
\* leaves the persisted token and the refresh timers of the earlier session
\* untouched.
C29_FailedLoginResetsMemoryOnly ==
    /\ []((settled.call = "login" /\ settled.error # NoError)
            => /\ token = Null
               /\ user = NoUser
               /\ settled.error \in AuthErrorClasses
               /\ loginCalls[PageCall].pc = "idle")
    /\ [][(settled'.call = "login" /\ settled'.error # NoError)
          => UNCHANGED <<authToken, refreshTimeout, timers>>]_vars
    /\ [][loginCalls' # loginCalls
          => \/ settled'.call = "login"
             \/ UNCHANGED <<token, user, authToken, refreshTimeout,
                            timers>>]_vars

\* a second login failed while the session of the first existed: memory is
\* reset, the persisted token and the pending refresh of the first remain
C29_Witness ==
    /\ settled.call = "login"
    /\ settled.error = "InvalidCredentialsError"
    /\ token = Null
    /\ user = NoUser
    /\ authToken = "t1"
    /\ PendingTimers = {refreshTimeout}

\* C30: a refresh callback is pending only after some login has succeeded,
\* and whenever one is pending the token it will send is the token returned
\* by the most recent successful AuthService.login: a timer becomes pending
\* only in the step in which a login succeeds, with that login's token; a
\* pending timer keeps its token; and a login that succeeds leaves its own
\* timer as the only one pending.
C30_PendingRefreshIsLastLogins ==
    /\ [](\A t \in PendingTimers :
             t = refreshTimeout /\ timers[t].token \in Tokens)
    /\ [][\A t \in {i \in DOMAIN timers' : timers'[i].state = "pending"} :
             \/ t \in PendingTimers /\ timers'[t] = timers[t]
             \/ /\ t = Len(timers) + 1
                /\ settled' = Settle("login", NoError, timers'[t].token)]_vars
    /\ [][(settled'.call = "login" /\ settled'.error = NoError)
          => /\ Len(timers') = Len(timers) + 1
             /\ {i \in DOMAIN timers' : timers'[i].state = "pending"}
                  = {Len(timers')}
             /\ timers'[Len(timers')].token = settled'.value]_vars

\* a second login succeeded with another token than the first: the first
\* login's timer is cleared and the pending one sends the second token
C30_Witness ==
    /\ Len(timers) = 2
    /\ timers[1].state = "cleared"
    /\ timers[2] = [state |-> "pending", token |-> "t2", attempt |-> 0]
    /\ settled = Settle("login", NoError, "t2")
    /\ refreshTimeout = 2

\* C31: after a scheduled refresh has succeeded in the running process, the
\* facade's in-memory token equals the persisted token: the session does not
\* keep the token from before the refresh while the store holds the new one.
C31_RefreshedTokenInMemory ==
    (settled.call = "refresh" /\ settled.error = NoError) => token = authToken

\* C32: at startup the facade adopts a persisted token as its in-memory
\* token only after validateToken returned true for it; when validateToken
\* returns false the persisted token is removed and token and user stay
\* null; and when no token is persisted no request is sent.
C32_StartupAdoptsValidatedToken ==
    /\ [](startup.pc \in {"unmounted", "validate_req", "validate_sleep"}
            => token = Null /\ user = NoUser)
    /\ [](settled = Settle("validateToken", NoError, "false")
            => /\ authToken = Null
               /\ token = Null
               /\ user = NoUser
               /\ RequestsInFlight = {})
    /\ [][startup' # startup
          => /\ token' # token
                => /\ settled' = Settle("validateToken", NoError, "true")
                   /\ token' = startup.storedToken
             /\ user' # user => startup.pc = "find_req"
             /\ (startup.pc = "unmounted" /\ authToken = Null)
                => /\ startup'.pc = "done"
                   /\ RequestsInFlight' = {}
                   /\ UNCHANGED <<token, user, authToken>>
             /\ (startup.pc = "unmounted" /\ authToken # Null)
                => RequestsInFlight'
                     = {Request("ValidateToken", getHeaders(authToken))}]_vars

\* the stored token was validated at startup and found invalid:
\* it is removed and nothing is adopted
C32_Witness ==
    /\ settled = Settle("validateToken", NoError, "false")
    /\ startup.pc = "done"
    /\ authToken = Null
    /\ token = Null

====
